---- MODULE Spec2Model ----
(***************************************************************************)
(* Queue promotion and appointment scheduling engine of dash-q             *)
(* (dash-q-backend/server.js).  The store (Supabase tables queue_entries,  *)
(* appointments, services_completed) is the state; every HTTP handler and  *)
(* cron job is an action.  Times are minutes since 1970-01-01T00:00Z.      *)
(***************************************************************************)
EXTENDS Integers, Sequences, FiniteSets, TLC

VARIABLES
    queue,      \* table queue_entries: id -> row
    appts,      \* table appointments: id -> row
    ledger,     \* table services_completed: sequence of rows
    now,        \* wall clock (new Date()), minutes
    pgrst,      \* how the deployed PostgREST treats a filter on an embed that is not selected
    proc,       \* in-flight requests: process -> handler position and locals
    resp        \* last response sent / last value returned

vars == <<queue, appts, ledger, now, pgrst, proc, resp>>

----------------------------------------------------------------------------
(* Bounds *)
MaxEntries == 2
MaxSeqEntries == 3
MaxBookings == 3
MaxAppts == 2
MaxLedger == 1
\* last converter tick of a run, 10:40 of shop day 1
Horizon == 1600

(* Small input sets *)
Barbers == {1, 2}
Users == {"u1", "u2"}
NoUser == "none"
UserOpt == Users \cup {NoUser}
Services == {1, 2}
HeadCounts == {1, 2}
Procs == {1, 2}

(* services table (admin data): duration_minutes and price_php per service *)
Duration(s) == IF s = 1 THEN 30 ELSE 45
Price(s) == IF s = 1 THEN 150 ELSE 200

EntryIds == 1..MaxEntries
SeqIds == 1..MaxSeqEntries
ApptIds == 1..MaxAppts

NoRow == [barber |-> 0, user |-> NoUser, service |-> 0, vip |-> FALSE, created |-> 0,
          status |-> "Absent", notified |-> FALSE, heads |-> 1]
GoneRow == [NoRow EXCEPT !.status = "Deleted"]

NoAppt == [barber |-> 0, user |-> NoUser, service |-> 0, start |-> 0, end |-> 0,
           status |-> "absent", converted |-> FALSE]

Exists(q, i) == i \in DOMAIN q /\ q[i].status \notin {"Absent", "Deleted"}
Active == {"Waiting", "Up Next", "In Progress"}

Rows(q) == {i \in DOMAIN q : Exists(q, i)}
FreeIds(q) == {i \in DOMAIN q : q[i].status = "Absent"}
NextId(q) == IF FreeIds(q) = {} THEN 0 ELSE CHOOSE i \in FreeIds(q) : \A j \in FreeIds(q) : i <= j

WithStatus(q, b, st) == {i \in Rows(q) : q[i].barber = b /\ q[i].status = st}

----------------------------------------------------------------------------
(* enforceQueueLogic *)

\* .order('is_vip', desc).order('created_at', asc): i sorts before j
Before(q, i, j) ==
    \/ q[i].vip /\ ~q[j].vip
    \/ q[i].vip = q[j].vip /\ q[i].created < q[j].created
    \/ q[i].vip = q[j].vip /\ q[i].created = q[j].created /\ i < j

\* first row of S in that order (.limit(1)); 0 is null
Top(q, S) == IF S = {} THEN 0 ELSE CHOOSE i \in S : \A j \in S \ {i} : Before(q, i, j)

\* .eq('status','Up Next').maybeSingle(): the row when exactly one matches;
\* data is null when none matches and also when several match (PGRST116)
MaybeSingle(S) == IF Cardinality(S) = 1 THEN CHOOSE i \in S : TRUE ELSE 0

ReadUpNext(q, b) == MaybeSingle(WithStatus(q, b, "Up Next"))

\* The candidate query filters on 'queue.status' = 'waiting', which names a column of an
\* embedded resource "queue" that the select does not embed; it never filters on the
\* status column.  PostgREST either rejects the request (data null) or drops the filter
\* (every row of the barber, whatever its status, is a candidate).
ReadTopCandidate(q, b, mode) ==
    IF mode = "rejected" THEN 0
    ELSE Top(q, {i \in Rows(q) : q[i].barber = b})

\* .update({status}).eq('id', id): no row, no change
UpdateStatus(q, id, st) == IF Exists(q, id) THEN [q EXCEPT ![id].status = st] ELSE q

\* A: fill the empty slot; B: VIP bump; C: no change.  upVip, topVip are is_vip of the rows read
Scenario(up, upVip, top, topVip) ==
    IF up = 0 /\ top # 0 THEN "A"
    ELSE IF up # 0 /\ ~upVip /\ top # 0 /\ topVip THEN "B"
    ELSE "C"

VipOf(q, i) == IF Exists(q, i) THEN q[i].vip ELSE FALSE

DemoteWrite(q, up) == UpdateStatus(q, up, "Waiting")
PromoteWrite(q, top) == UpdateStatus(q, top, "Up Next")

\* value returned by the engine: ids of the returned rows (0 for a null row)
EnforceReturn(q, sc, up, top) ==
    IF sc = "C" THEN (IF up # 0 THEN <<up>> ELSE <<>>)
    ELSE IF Exists(q, top) THEN <<top>> ELSE <<0>>

\* one uninterrupted run of enforceQueueLogic(b)
enforceQueueLogic(q, b, mode) ==
    LET up == ReadUpNext(q, b)
        top == ReadTopCandidate(q, b, mode)
        sc == Scenario(up, VipOf(q, up), top, VipOf(q, top))
        q1 == IF sc = "B" THEN DemoteWrite(q, up) ELSE q
        q2 == IF sc \in {"A", "B"} THEN PromoteWrite(q1, top) ELSE q1
    IN [q |-> q2, ret |-> EnforceReturn(q1, sc, up, top), sc |-> sc, up |-> up, top |-> top]

----------------------------------------------------------------------------
(* Database functions called through supabase.rpc; their SQL is not in the       *)
(* JavaScript sources, so they follow the design document.                        *)

NewRow(id, b, u, s, vip) ==
    [barber |-> b, user |-> u, service |-> s, vip |-> vip, created |-> id,
     status |-> "Waiting", notified |-> FALSE, heads |-> 1]

\* join_queue_auto_assign: inserts the row in status Waiting
JoinRpc(q, b, u, s, vip) == [q EXCEPT ![NextId(q)] = NewRow(NextId(q), b, u, s, vip)]

\* call_next_customer: one conditional update; fails when the chair is taken or the
\* target is not Waiting / Up Next for this barber
\* the same without the chair check
CallNextOkNoChairCheck(q, b, id) ==
    Exists(q, id) /\ q[id].barber = b /\ q[id].status \in {"Waiting", "Up Next"}
CallNextOk(q, b, id) ==
    /\ WithStatus(q, b, "In Progress") = {}
    /\ Exists(q, id) /\ q[id].barber = b /\ q[id].status \in {"Waiting", "Up Next"}
CallNextRpc(q, b, id) == IF CallNextOk(q, b, id) THEN [q EXCEPT ![id].status = "In Progress"] ELSE q

\* auto_fill_up_next_v2: the promotion rules of the design, in one transaction
AutoFillRpcNoBump(q, b) ==
    LET up == Top(q, WithStatus(q, b, "Up Next"))
        top == Top(q, WithStatus(q, b, "Waiting"))
    IN  IF top = 0 \/ up # 0 THEN [q |-> q, ret |-> <<>>]
        ELSE [q |-> [q EXCEPT ![top].status = "Up Next"], ret |-> <<top>>]
AutoFillRpc(q, b) ==
    LET up == Top(q, WithStatus(q, b, "Up Next"))
        top == Top(q, WithStatus(q, b, "Waiting"))
    IN  IF top = 0 THEN [q |-> q, ret |-> <<>>]
        ELSE IF up = 0 THEN [q |-> [q EXCEPT ![top].status = "Up Next"], ret |-> <<top>>]
        ELSE IF ~q[up].vip /\ q[top].vip
             THEN [q |-> [q EXCEPT ![up].status = "Waiting", ![top].status = "Up Next"], ret |-> <<top>>]
        ELSE [q |-> q, ret |-> <<>>]

\* mark_queue_entry_cancelled: cancels a Waiting / Up Next row of the barber, then backfills
CancelOk(q, b, id) == Exists(q, id) /\ q[id].barber = b /\ q[id].status \in {"Waiting", "Up Next"}
CancelRpc(q, b, id) ==
    IF CancelOk(q, b, id) THEN AutoFillRpc([q EXCEPT ![id].status = "Cancelled"], b)
    ELSE [q |-> q, ret |-> <<>>]

----------------------------------------------------------------------------
(* Store calls of the handlers *)

ActiveOf(q, u) == {i \in Rows(q) : q[i].user = u /\ q[i].status \in Active}

\* POST /api/queue, blocking check: .eq('user_id').in('status', active).maybeSingle()
JoinCheck(q, u) ==
    IF u = NoUser THEN "ok"
    ELSE IF Cardinality(ActiveOf(q, u)) > 1 THEN "error"
    ELSE IF ActiveOf(q, u) # {} THEN "conflict"
    ELSE "ok"

InSeq(x, sq) == \E k \in 1..Len(sq) : sq[k] = x
Head0(sq) == IF Len(sq) > 0 THEN sq[1] ELSE 0

SetHeads(q, id, h) == IF Exists(q, id) /\ h > 1 THEN [q EXCEPT ![id].heads = h] ELSE q
SetNotified(q, id) == IF Exists(q, id) THEN [q EXCEPT ![id].notified = TRUE] ELSE q

\* processUpNextNotification(entry): flags the row unless the webhook post fails
\* the same, flagging the row whatever the outcome of the post
processUpNextNotificationAlways(q, id, delivered) == SetNotified(q, id)
processUpNextNotification(q, id, delivered) == IF delivered THEN SetNotified(q, id) ELSE q

\* POST /api/queue/complete: the fetch by id alone, the guarded update, the ledger row
CompleteFound(q, id) == Exists(q, id)
CompleteUpdate(q, id) == IF Exists(q, id) /\ q[id].status = "In Progress" THEN [q EXCEPT ![id].status = "Done"] ELSE q
\* tipInt < 0 || vipChargeInt < 0: answered 400 before any store call
CompleteInvalid(tip, vipCharge) == tip < 0 \/ vipCharge < 0
\* queueEntry.head_count || 1
HeadCountOf(q, id) == IF q[id].heads = 0 THEN 1 ELSE q[id].heads
\* servicePrice * headCount + tipInt + vipChargeInt
TotalProfitNoTip(q, id, tip, vipCharge) == Price(q[id].service) * HeadCountOf(q, id) + vipCharge
TotalProfit(q, id, tip, vipCharge) == Price(q[id].service) * HeadCountOf(q, id) + tip + vipCharge
LedgerRow(q, b, id, tip, vipCharge) == [barber |-> b, price |-> TotalProfit(q, id, tip, vipCharge), heads |-> HeadCountOf(q, id)]

\* DELETE /api/queue/:queueId: the owner lookup and the delete by id alone
DeleteLookupAnyStatus(q, id) == IF Exists(q, id) THEN id ELSE 0
DeleteLookup(q, id) == IF Exists(q, id) /\ q[id].status \in {"Waiting", "Up Next"} THEN id ELSE 0
DeleteRow(q, id) == IF Exists(q, id) THEN [q EXCEPT ![id] = GoneRow] ELSE q

Response(op, code, id, st, ret) ==
    [op |-> op, code |-> code, id |-> id, status |-> st, ret |-> ret, slots |-> <<>>, mail |-> <<>>, sent |-> <<>>]
\* axios.post(N8N_WEBHOOK_URL, ...) to entry id, once per outcome: the posts made and the posts that got through
Posts(r, id, outcomes) ==
    IF id = 0 THEN r
    ELSE [r EXCEPT !.mail = [k \in 1..Len(outcomes) |-> id],
                   !.sent = [k \in 1..Cardinality({j \in 1..Len(outcomes) : outcomes[j]}) |-> id]]
NoResponse == Response("none", 0, 0, "", <<>>)

----------------------------------------------------------------------------
(* Appointment-to-queue converter, cron every 5 minutes *)

LeadWindow == 30
\* the same with a window of one minute, shorter than the time between two ticks
DueShort(a, t) == {k \in DOMAIN a : a[k].status = "confirmed" /\ ~a[k].converted
                                     /\ a[k].start <= t + 1 /\ a[k].start >= t}
Due(a, t) == {k \in DOMAIN a : a[k].status = "confirmed" /\ ~a[k].converted
                                /\ a[k].start <= t + LeadWindow /\ a[k].start >= t}
MinOf(S) == CHOOSE i \in S : \A j \in S : i <= j

\* body of the loop for one due appointment: insert, flag, auto-fill
ConvertInsertRegular(q, ap) ==
    [q EXCEPT ![NextId(q)] = [NewRow(NextId(q), ap.barber, ap.user, ap.service, FALSE) EXCEPT !.status = "Waiting"]]
ConvertInsert(q, ap) ==
    [q EXCEPT ![NextId(q)] = [NewRow(NextId(q), ap.barber, ap.user, ap.service, TRUE) EXCEPT !.status = "Waiting"]]
ConvertFlag(a, k) == [a EXCEPT ![k].converted = TRUE]
ConvertOneNoFill(q, a, k) == [q |-> ConvertInsert(q, a[k]), a |-> ConvertFlag(a, k)]
ConvertOne(q, a, k) == [q |-> AutoFillRpc(ConvertInsert(q, a[k]), a[k].barber).q, a |-> ConvertFlag(a, k)]

RECURSIVE ConvertAll(_, _, _)
ConvertAll(q, a, S) ==
    IF S = {} THEN [q |-> q, a |-> a]
    ELSE LET k == MinOf(S)
             one == ConvertOne(q, a, k)
         IN ConvertAll(one.q, one.a, S \ {k})

----------------------------------------------------------------------------
(* Handlers run without interleaving: one action per request *)

Tips == {0, 20}
VipCharges == {0, 100}

\* what each handler leaves in queue_entries and answers, given the outcome of its posts
JoinResult(q, mode, b, u, s, vip, h, delivered) ==
    LET chk == JoinCheck(q, u)
        id == NextId(q)
        q1 == JoinRpc(q, b, u, s, vip)
        e == enforceQueueLogic(q1, b, mode)
        promoted == InSeq(id, e.ret)
        q2 == SetHeads(e.q, id, h)
        q3 == IF promoted THEN SetNotified(q2, id) ELSE q2
    IN  [q |-> IF chk = "ok" THEN q3 ELSE q,
         resp |-> IF chk = "error" THEN Response("join", 500, 0, "", <<>>)
                  ELSE IF chk = "conflict" THEN Response("join", 409, 0, "", <<>>)
                  ELSE Posts(Response("join", 201, id, IF promoted THEN "Up Next" ELSE "Waiting", e.ret),
                             IF promoted THEN id ELSE 0, <<delivered>>)]

JoinSeq(b, u, s, vip, h, delivered) ==
    LET r == JoinResult(queue, pgrst, b, u, s, vip, h, delivered)
    IN  /\ JoinCheck(queue, u) = "ok" => NextId(queue) # 0
        /\ queue' = r.q
        /\ resp' = r.resp
        /\ UNCHANGED <<appts, ledger, now, pgrst, proc>>

\* the same, answering 500 when the post of processUpNextNotification fails
CallNextResultAbort(q, mode, b, id, delivered, direct) ==
    LET ok == CallNextOk(q, b, id)
        q1 == CallNextRpc(q, b, id)
        e == enforceQueueLogic(q1, b, mode)
        nxt == Head0(e.ret)
        q2 == IF nxt # 0 THEN processUpNextNotification(e.q, nxt, delivered) ELSE e.q
    IN  [q |-> IF ok THEN q2 ELSE q,
         resp |-> IF ok /\ nxt # 0 /\ ~delivered THEN Response("next", 500, id, "", <<>>)
                  ELSE IF ok THEN Posts(Response("next", 200, id, "In Progress", e.ret), nxt, <<delivered, direct>>)
                  ELSE Response("next", 409, id, "", <<>>)]
CallNextResult(q, mode, b, id, delivered, direct) ==
    LET ok == CallNextOk(q, b, id)
        q1 == CallNextRpc(q, b, id)
        e == enforceQueueLogic(q1, b, mode)
        nxt == Head0(e.ret)
        q2 == IF nxt # 0 THEN processUpNextNotification(e.q, nxt, delivered) ELSE e.q
    IN  [q |-> IF ok THEN q2 ELSE q,
         resp |-> IF ok THEN Posts(Response("next", 200, id, "In Progress", e.ret), nxt, <<delivered, direct>>)
                  ELSE Response("next", 409, id, "", <<>>)]

CallNextSeq(b, id, delivered, direct) ==
    LET r == CallNextResult(queue, pgrst, b, id, delivered, direct)
    IN  /\ queue' = r.q
        /\ resp' = r.resp
        /\ UNCHANGED <<appts, ledger, now, pgrst, proc>>

CompleteResult(q, mode, b, id, tip, vipCharge, ledgerOk, delivered) ==
    LET bad == CompleteInvalid(tip, vipCharge)
        found == ~bad /\ CompleteFound(q, id)
        q1 == CompleteUpdate(q, id)
        e == enforceQueueLogic(q1, b, mode)
    IN  [q |-> IF ~found THEN q ELSE IF ledgerOk THEN e.q ELSE q1,
         logged |-> found /\ ledgerOk,
         resp |-> IF bad THEN Response("complete", 400, id, "", <<tip, vipCharge>>)
                  ELSE IF ~found THEN Response("complete", 500, id, "", <<tip, vipCharge>>)
                  ELSE IF ~ledgerOk THEN Response("complete", 500, id, q1[id].status, <<tip, vipCharge>>)
                  ELSE Posts(Response("complete", 200, id, q1[id].status, <<tip, vipCharge>>),
                             Head0(e.ret), <<delivered>>)]

CompleteSeq(b, id, tip, vipCharge, ledgerOk, delivered) ==
    LET r == CompleteResult(queue, pgrst, b, id, tip, vipCharge, ledgerOk, delivered)
    IN  /\ r.logged => Len(ledger) < MaxLedger
        /\ queue' = r.q
        /\ ledger' = IF r.logged THEN Append(ledger, LedgerRow(queue, b, id, tip, vipCharge)) ELSE ledger
        /\ resp' = r.resp
        /\ UNCHANGED <<appts, now, pgrst, proc>>

CancelResult(q, b, id, delivered) ==
    LET r == CancelRpc(q, b, id)
    IN  [q |-> r.q,
         resp |-> IF CancelOk(q, b, id)
                  THEN Posts(Response("cancel", 200, id, "Cancelled", r.ret), Head0(r.ret), <<delivered>>)
                  ELSE Response("cancel", 400, id, "", <<>>)]

CancelSeq(b, id, delivered) ==
    LET r == CancelResult(queue, b, id, delivered)
    IN  /\ queue' = r.q
        /\ resp' = r.resp
        /\ UNCHANGED <<appts, ledger, now, pgrst, proc>>

DeleteResult(q, id, u, delivered) ==
    LET found == DeleteLookup(q, id)
        owner == found # 0 /\ q[id].user = u
        q1 == DeleteRow(q, id)
        r == AutoFillRpc(q1, q[id].barber)
    IN  [q |-> IF u # NoUser /\ owner THEN r.q ELSE q,
         resp |-> IF u = NoUser THEN Response("delete", 401, id, "", <<>>)
                  ELSE IF found = 0 THEN Response("delete", 404, id, "", <<>>)
                  ELSE IF ~owner THEN Response("delete", 403, id, "", <<>>)
                  ELSE Posts(Response("delete", 200, id, "Deleted", r.ret), Head0(r.ret), <<delivered>>)]

DeleteSeq(id, u, delivered) ==
    LET r == DeleteResult(queue, id, u, delivered)
    IN  /\ queue' = r.q
        /\ resp' = r.resp
        /\ UNCHANGED <<appts, ledger, now, pgrst, proc>>

ConverterSeq ==
    LET due == Due(appts, now)
        r == ConvertAll(queue, appts, due)
    IN  /\ due # {}
        /\ Cardinality(FreeIds(queue)) >= Cardinality(due)
        /\ queue' = r.q
        /\ appts' = r.a
        /\ resp' = Response("convert", 0, 0, "", <<>>)
        /\ UNCHANGED <<ledger, now, pgrst, proc>>

\* a bare invocation of the engine
EnforceSeq(b) ==
    LET e == enforceQueueLogic(queue, b, pgrst)
    IN  /\ queue' = e.q
        /\ resp' = Response("enforce", 0, b, e.sc, e.ret)
        /\ UNCHANGED <<appts, ledger, now, pgrst, proc>>

----------------------------------------------------------------------------
(* Appointments: slot list, booking, rejection *)

DayMinutes == 1440
PhOffset == 480
OpenMinute == 630
CloseMinute == 1140
SlotStep == 30

\* toISOString().split('T')[0]: the UTC calendar date of an instant
DateOf(t) == t \div DayMinutes

\* `${date}T10:30:00+08:00` and `${date}T19:00:00+08:00` for the shop-local date d
OpenTime(d) == d * DayMinutes + OpenMinute - PhOffset
CloseTime(d) == d * DayMinutes + CloseMinute - PhOffset
DayStart(d) == d * DayMinutes - PhOffset
DayEnd(d) == d * DayMinutes + (DayMinutes - 1) - PhOffset

\* service?.duration_minutes || 30
DurationOf(s) == IF s \in Services /\ Duration(s) # 0 THEN Duration(s) ELSE 30

\* confirmed appointments of the barber that start on the shop-local date
Bookings(a, b, d) == {k \in DOMAIN a : a[k].status = "confirmed" /\ a[k].barber = b
                                        /\ a[k].start >= DayStart(d) /\ a[k].start <= DayEnd(d)}

\* slotStart < bookEnd && slotEnd > bookStart
OverlapsClosed(s1, e1, s2, e2) == s1 <= e2 /\ e1 >= s2
Overlaps(s1, e1, s2, e2) == s1 < e2 /\ e1 > s2
IsTaken(a, B, st, en) == \E k \in B : Overlaps(st, en, a[k].start, a[k].end)

\* Date.getMinutes() and Date.setMinutes(m): the minutes field of the host-local time,
\* for a host whose zone is tz minutes ahead of UTC
HostOffset == 330
getMinutes(t, tz) == (t + tz) % 60
setMinutes(t, tz, m) == t - getMinutes(t, tz) + m

RECURSIVE SlotLoop(_, _, _, _, _, _, _, _)
SlotLoop(it, close, dur, t, a, B, tz, acc) ==
    LET step == setMinutes(it, tz, getMinutes(it, tz) + SlotStep)
    IN  IF ~(it < close) THEN acc
        ELSE IF it + dur > close THEN acc
        ELSE IF it < t THEN SlotLoop(step, close, dur, t, a, B, tz, acc)
        ELSE IF IsTaken(a, B, it, it + dur) THEN SlotLoop(step, close, dur, t, a, B, tz, acc)
        ELSE SlotLoop(step, close, dur, t, a, B, tz, Append(acc, it))

\* GET /api/appointments/slots
computeSlots(a, t, b, d, s, tz) ==
    SlotLoop(OpenTime(d), CloseTime(d), DurationOf(s), t, a, Bookings(a, b, d), tz, <<>>)

\* POST /api/appointments/book, step 1: apptDateString <= nowDateString
LeadRejectPastOnly(start, t) == DateOf(start) < DateOf(t + PhOffset)
LeadReject(start, t) == DateOf(start) <= DateOf(t + PhOffset)

\* step 3: the conflict query, .maybeSingle()
ConflictsAnyStatus(a, b, st, en) == {k \in DOMAIN a : a[k].status # "absent" /\ a[k].barber = b
                                                       /\ a[k].start < en /\ a[k].end > st}
Conflicts(a, b, st, en) == {k \in DOMAIN a : a[k].status = "confirmed" /\ a[k].barber = b
                                              /\ a[k].start < en /\ a[k].end > st}
ConflictRead(a, b, st, en) == MaybeSingle(Conflicts(a, b, st, en))

FreeAppt(a) == {k \in DOMAIN a : a[k].status = "absent"}
NextAppt(a) == IF FreeAppt(a) = {} THEN 0 ELSE MinOf(FreeAppt(a))

\* step 4: the insert
BookInsert(a, b, u, s, st, en) ==
    [a EXCEPT ![NextAppt(a)] = [barber |-> b, user |-> u, service |-> s, start |-> st, end |-> en,
                                status |-> "confirmed", converted |-> FALSE]]

BookSeq(b, u, s, st) ==
    LET en == st + DurationOf(s)
        lead == LeadReject(st, now)
        conflict == ConflictRead(appts, b, st, en)
        ins == ~lead /\ conflict = 0
    IN  /\ ins => NextAppt(appts) # 0
        /\ appts' = IF ins THEN BookInsert(appts, b, u, s, st, en) ELSE appts
        /\ resp' = IF lead THEN Response("book", 400, b, "", <<st, en>>)
                   ELSE IF conflict # 0 THEN Response("book", 409, b, "", <<st, en>>)
                   ELSE Response("book", 201, b, "confirmed", <<st, en>>)
        /\ UNCHANGED <<queue, ledger, now, pgrst, proc>>

\* PUT /api/appointments/reject: .update({status:'cancelled'}).eq('id', k)
RejectUpdate(a, k) == IF a[k].status # "absent" THEN [a EXCEPT ![k].status = "cancelled"] ELSE a
RejectSeq(k) ==
    /\ appts' = RejectUpdate(appts, k)
    /\ resp' = Response("reject", IF appts[k].status # "absent" THEN 200 ELSE 500, k, "", <<>>)
    /\ UNCHANGED <<queue, ledger, now, pgrst, proc>>

SlotsSeq(b, d, s, tz) ==
    /\ resp' = [Response("slots", 200, b, "", <<d, s>>) EXCEPT !.slots = computeSlots(appts, now, b, d, s, tz)]
    /\ UNCHANGED <<queue, appts, ledger, now, pgrst, proc>>

----------------------------------------------------------------------------
(* Clock *)

StartTime == 240
ClockPoints == {1565, 1600}
BookStarts == {1590, 1620}

AdvanceClock(T) ==
    /\ \E t \in T : t > now /\ now' = t
    /\ UNCHANGED <<queue, appts, ledger, pgrst, proc, resp>>

----------------------------------------------------------------------------
(* Sequential specification: requests and cron jobs one at a time *)

NoLedgerRow == [barber |-> 0, price |-> 0, heads |-> 0]
Idle == [pc |-> "idle", op |-> "none", b |-> 0, id |-> 0, u |-> NoUser, vip |-> FALSE,
         up |-> 0, upVip |-> FALSE, top |-> 0, ret |-> <<>>, due |-> {}, row |-> NoLedgerRow,
         svc |-> 0, st |-> 0, en |-> 0]

\* appointment stores booked on an earlier day: empty, or one confirmed appointment
SeedAppt == [barber |-> 1, user |-> "u1", service |-> 1, start |-> 1590, end |-> 1620,
             status |-> "confirmed", converted |-> FALSE]
SeedStores == {[k \in ApptIds |-> NoAppt], [k \in ApptIds |-> IF k = 1 THEN SeedAppt ELSE NoAppt]}

\* the barbers' side: walk-in joins, call-next, complete, cancel, and the engine itself
InitSeq ==
    /\ queue = [i \in SeqIds |-> NoRow]
    /\ appts = [k \in ApptIds |-> NoAppt]
    /\ ledger = <<>>
    /\ now = StartTime
    /\ pgrst \in {"rejected", "ignored"}
    /\ proc = [p \in Procs |-> Idle]
    /\ resp = NoResponse

NextSeq ==
    \/ \E b \in Barbers, vip \in BOOLEAN : JoinSeq(b, NoUser, 1, vip, 1, TRUE)
    \/ \E b \in Barbers, id \in SeqIds : CallNextSeq(b, id, TRUE, TRUE)
    \/ \E b \in Barbers, id \in SeqIds : CompleteSeq(b, id, 0, 0, TRUE, TRUE)
    \/ \E b \in Barbers, id \in SeqIds : CancelSeq(b, id, TRUE)
    \/ \E b \in Barbers : EnforceSeq(b)

SpecSeq == InitSeq /\ [][NextSeq]_vars

----------------------------------------------------------------------------
(* Concurrent specification: each request is a process that performs one store *)
(* call (one await) per step; requests and cron runs interleave freely.        *)

IsIdle(p) == proc[p].pc = "idle"
At(p, l) == proc[p].pc = l
Goto(p, r) == proc' = [proc EXCEPT ![p] = r]
Finish(p) == proc' = [proc EXCEPT ![p] = Idle]

\* what a handler does once the engine has returned ret
AfterEnforce(p, ret) ==
    LET me == proc[p]
    IN  IF me.op = "join" /\ InSeq(me.id, ret) THEN [me EXCEPT !.pc = "join_notify", !.ret = ret]
        ELSE IF me.op = "next" /\ Head0(ret) # 0 THEN [me EXCEPT !.pc = "next_notify", !.ret = ret]
        ELSE Idle

\* POST /api/queue: blocking check (skipped without a user id, the insert comes first then);
\* a rejected request returns without touching the store
JoinStart(p, b, u, vip) ==
    /\ IsIdle(p)
    /\ IF u = NoUser
       THEN /\ NextId(queue) # 0
            /\ queue' = JoinRpc(queue, b, u, 1, vip)
            /\ Goto(p, [Idle EXCEPT !.pc = "enf_up", !.op = "join", !.b = b, !.vip = vip, !.id = NextId(queue)])
       ELSE /\ JoinCheck(queue, u) = "ok"
            /\ queue' = queue
            /\ Goto(p, [Idle EXCEPT !.pc = "join_rpc", !.op = "join", !.b = b, !.u = u, !.vip = vip])
    /\ UNCHANGED <<appts, ledger, now, pgrst, resp>>

JoinInsert(p) ==
    /\ At(p, "join_rpc")
    /\ NextId(queue) # 0
    /\ queue' = JoinRpc(queue, proc[p].b, proc[p].u, 1, proc[p].vip)
    /\ Goto(p, [proc[p] EXCEPT !.pc = "enf_up", !.id = NextId(queue)])
    /\ UNCHANGED <<appts, ledger, now, pgrst, resp>>

\* enforceQueueLogic, one store call per step
EnfReadUpNext(p) ==
    /\ At(p, "enf_up")
    /\ LET up == ReadUpNext(queue, proc[p].b)
       IN  Goto(p, [proc[p] EXCEPT !.pc = "enf_top", !.up = up, !.upVip = VipOf(queue, up)])
    /\ UNCHANGED <<queue, appts, ledger, now, pgrst, resp>>

EnfReadTop(p) ==
    /\ At(p, "enf_top")
    /\ LET me == proc[p]
           top == ReadTopCandidate(queue, me.b, pgrst)
           sc == Scenario(me.up, me.upVip, top, VipOf(queue, top))
       IN  Goto(p, IF sc = "A" THEN [me EXCEPT !.pc = "enf_promote", !.top = top]
                   ELSE IF sc = "B" THEN [me EXCEPT !.pc = "enf_demote", !.top = top]
                   ELSE AfterEnforce(p, EnforceReturn(queue, "C", me.up, top)))
    /\ UNCHANGED <<queue, appts, ledger, now, pgrst, resp>>

EnfDemote(p) ==
    /\ At(p, "enf_demote")
    /\ queue' = DemoteWrite(queue, proc[p].up)
    /\ Goto(p, [proc[p] EXCEPT !.pc = "enf_promote"])
    /\ UNCHANGED <<appts, ledger, now, pgrst, resp>>

EnfPromote(p) ==
    /\ At(p, "enf_promote")
    /\ queue' = PromoteWrite(queue, proc[p].top)
    /\ Goto(p, AfterEnforce(p, EnforceReturn(queue, "A", proc[p].up, proc[p].top)))
    /\ UNCHANGED <<appts, ledger, now, pgrst, resp>>

JoinNotify(p) ==
    /\ At(p, "join_notify")
    /\ queue' = SetNotified(queue, proc[p].id)
    /\ Finish(p)
    /\ UNCHANGED <<appts, ledger, now, pgrst, resp>>

\* PUT /api/queue/next; an RPC error returns 409 without touching the store
CallNextStart(p, b, id) ==
    /\ IsIdle(p)
    /\ CallNextOk(queue, b, id)
    /\ queue' = CallNextRpc(queue, b, id)
    /\ Goto(p, [Idle EXCEPT !.pc = "enf_up", !.op = "next", !.b = b, !.id = id])
    /\ UNCHANGED <<appts, ledger, now, pgrst, resp>>

NextNotify(p, delivered) ==
    /\ At(p, "next_notify")
    /\ queue' = processUpNextNotification(queue, Head0(proc[p].ret), delivered)
    /\ Finish(p)
    /\ UNCHANGED <<appts, ledger, now, pgrst, resp>>

\* POST /api/queue/complete
CompleteStart(p, b, id) ==
    /\ IsIdle(p)
    /\ CompleteFound(queue, id)
    /\ Goto(p, [Idle EXCEPT !.pc = "complete_update", !.op = "complete", !.b = b, !.id = id,
                            !.row = LedgerRow(queue, b, id, 0, 0)])
    /\ UNCHANGED <<queue, appts, ledger, now, pgrst, resp>>

CompleteSetDone(p) ==
    /\ At(p, "complete_update")
    /\ queue' = CompleteUpdate(queue, proc[p].id)
    /\ Goto(p, [proc[p] EXCEPT !.pc = "complete_ledger"])
    /\ UNCHANGED <<appts, ledger, now, pgrst, resp>>

CompleteLedger(p, ok) ==
    /\ At(p, "complete_ledger")
    /\ ok => Len(ledger) < MaxLedger
    /\ ledger' = IF ok THEN Append(ledger, proc[p].row) ELSE ledger
    /\ Goto(p, IF ok THEN [proc[p] EXCEPT !.pc = "enf_up", !.row = NoLedgerRow] ELSE Idle)
    /\ UNCHANGED <<queue, appts, now, pgrst, resp>>

\* PUT /api/queue/cancel
CancelCall(p, b, id) ==
    /\ IsIdle(p)
    /\ CancelOk(queue, b, id)
    /\ queue' = CancelRpc(queue, b, id).q
    /\ UNCHANGED <<appts, ledger, now, pgrst, proc, resp>>

\* DELETE /api/queue/:queueId
DeleteStart(p, id, u) ==
    /\ IsIdle(p)
    /\ DeleteLookup(queue, id) # 0 /\ queue[id].user = u
    /\ Goto(p, [Idle EXCEPT !.pc = "delete_row", !.op = "delete", !.id = id])
    /\ UNCHANGED <<queue, appts, ledger, now, pgrst, resp>>

DeleteRemove(p) ==
    /\ At(p, "delete_row")
    /\ queue' = DeleteRow(queue, proc[p].id)
    /\ Goto(p, IF Exists(queue, proc[p].id)
               THEN [proc[p] EXCEPT !.pc = "delete_fill", !.b = queue[proc[p].id].barber]
               ELSE Idle)
    /\ UNCHANGED <<appts, ledger, now, pgrst, resp>>

DeleteFill(p) ==
    /\ At(p, "delete_fill")
    /\ queue' = AutoFillRpc(queue, proc[p].b).q
    /\ Finish(p)
    /\ UNCHANGED <<appts, ledger, now, pgrst, resp>>

\* cron */5: the converter
ConvStart(p) ==
    /\ IsIdle(p)
    /\ Due(appts, now) # {}
    /\ Goto(p, [Idle EXCEPT !.pc = "conv_insert", !.op = "convert", !.due = Due(appts, now)])
    /\ UNCHANGED <<queue, appts, ledger, now, pgrst, resp>>

ConvInsert(p) ==
    /\ At(p, "conv_insert")
    /\ NextId(queue) # 0
    /\ queue' = ConvertInsert(queue, appts[MinOf(proc[p].due)])
    /\ Goto(p, [proc[p] EXCEPT !.pc = "conv_flag"])
    /\ UNCHANGED <<appts, ledger, now, pgrst, resp>>

ConvFlag(p) ==
    /\ At(p, "conv_flag")
    /\ appts' = ConvertFlag(appts, MinOf(proc[p].due))
    /\ Goto(p, [proc[p] EXCEPT !.pc = "conv_fill"])
    /\ UNCHANGED <<queue, ledger, now, pgrst, resp>>

ConvFill(p) ==
    /\ At(p, "conv_fill")
    /\ LET k == MinOf(proc[p].due)
           rest == proc[p].due \ {k}
       IN  /\ queue' = AutoFillRpc(queue, appts[k].barber).q
           /\ Goto(p, IF rest = {} THEN Idle ELSE [proc[p] EXCEPT !.pc = "conv_insert", !.due = rest])
    /\ UNCHANGED <<appts, ledger, now, pgrst, resp>>

\* Requests against one barber's queue by walk-in customers and the barber
ChairBarbers == {1}

EngineStep(p) ==
    \/ \E b \in ChairBarbers, vip \in BOOLEAN : JoinStart(p, b, NoUser, vip)
    \/ EnfReadUpNext(p)
    \/ EnfReadTop(p)
    \/ EnfDemote(p)
    \/ EnfPromote(p)
    \/ JoinNotify(p)
    \/ \E b \in ChairBarbers, id \in EntryIds : CallNextStart(p, b, id)
    \/ \E d \in BOOLEAN : NextNotify(p, d)
    \/ \E b \in ChairBarbers, id \in EntryIds : CompleteStart(p, b, id)
    \/ CompleteSetDone(p)
    \/ \E ok \in BOOLEAN : CompleteLedger(p, ok)
    \/ \E b \in ChairBarbers, id \in EntryIds : CancelCall(p, b, id)

Init ==
    /\ queue = [i \in EntryIds |-> NoRow]
    /\ appts = [k \in ApptIds |-> NoAppt]
    /\ ledger = <<>>
    /\ now = StartTime
    /\ pgrst \in {"rejected", "ignored"}
    /\ proc = [p \in Procs |-> Idle]
    /\ resp = NoResponse

Next == \E p \in Procs : EngineStep(p)

Spec == Init /\ [][Next]_vars

InProgressOf(b) == WithStatus(queue, b, "In Progress")
UpNextOf(b) == WithStatus(queue, b, "Up Next")

(* C1: single-chair invariant -- at most one entry per barber is In Progress in every
   reachable state, whatever the interleaving of the requests. *)
SingleChair == \A b \in Barbers : Cardinality(InProgressOf(b)) <= 1

\* two callNext requests raced for the chair: one entry is In Progress while the
\* other request's target is still Waiting / Up Next
SingleChairWitness ==
    \E b \in Barbers : /\ Cardinality(InProgressOf(b)) = 1
                       /\ \E p \in Procs : proc[p].op = "next" /\ proc[p].b = b
                       /\ \E i \in Rows(queue) : queue[i].barber = b /\ queue[i].status \in {"Waiting", "Up Next"}

(* C2: single-Up-Next invariant -- at most one entry per barber is Up Next in every
   reachable state, including while enforceQueueLogic invocations interleave. *)
SingleUpNext == \A b \in Barbers : Cardinality(UpNextOf(b)) <= 1

----------------------------------------------------------------------------
(* Concurrent bookings: the conflict query and the insert are separate store calls *)

BookCheck(p, b, u, s, st) ==
    /\ IsIdle(p)
    /\ LET en == st + DurationOf(s)
           lead == LeadReject(st, now)
           conflict == ConflictRead(appts, b, st, en)
       IN  IF lead \/ conflict # 0
           THEN /\ resp' = Response("book", IF lead THEN 400 ELSE 409, b, "", <<st, en>>)
                /\ proc' = proc
           ELSE /\ Goto(p, [Idle EXCEPT !.pc = "book_insert", !.op = "book", !.b = b, !.u = u,
                                        !.svc = s, !.st = st, !.en = en])
                /\ resp' = resp
    /\ UNCHANGED <<queue, appts, ledger, now, pgrst>>

BookWrite(p) ==
    /\ At(p, "book_insert")
    /\ NextAppt(appts) # 0
    /\ LET me == proc[p]
       IN  /\ appts' = BookInsert(appts, me.b, me.u, me.svc, me.st, me.en)
           /\ resp' = Response("book", 201, me.b, "confirmed", <<me.st, me.en>>)
    /\ Finish(p)
    /\ UNCHANGED <<queue, ledger, now, pgrst>>

RaceStarts == {1590, 1605}

InitBook ==
    /\ queue = [i \in EntryIds |-> NoRow]
    /\ appts = [k \in ApptIds |-> NoAppt]
    /\ ledger = <<>>
    /\ now \in {StartTime, 1565}
    /\ pgrst = "rejected"
    /\ proc = [p \in Procs |-> Idle]
    /\ resp = NoResponse

NextBook ==
    \/ \E p \in Procs, u \in Users, st \in RaceStarts : BookCheck(p, 1, u, 1, st)
    \/ \E p \in Procs : BookWrite(p)
    \/ \E k \in ApptIds : RejectSeq(k)

SpecBook == InitBook /\ [][NextBook]_vars

Confirmed(a) == {k \in DOMAIN a : a[k].status = "confirmed"}

(* C3: no-overlap invariant -- any two confirmed appointments of one barber have
   disjoint [start, end) intervals, also when two book requests run concurrently. *)
NoOverlap ==
    \A j, k \in Confirmed(appts) :
        (j # k /\ appts[j].barber = appts[k].barber)
            => ~Overlaps(appts[j].start, appts[j].end, appts[k].start, appts[k].end)

----------------------------------------------------------------------------
(* Signed-in customers joining and leaving while the converter runs *)

JoinerStep(p) ==
    \/ \E b \in Barbers, vip \in BOOLEAN : JoinStart(p, b, "u1", vip)
    \/ JoinInsert(p)
    \/ EnfReadUpNext(p)
    \/ EnfReadTop(p)
    \/ EnfDemote(p)
    \/ EnfPromote(p)
    \/ JoinNotify(p)
    \/ \E id \in EntryIds, u \in Users : DeleteStart(p, id, u)
    \/ DeleteRemove(p)
    \/ DeleteFill(p)
    \/ ConvStart(p)
    \/ ConvInsert(p)
    \/ ConvFlag(p)
    \/ ConvFill(p)

InitJoin ==
    /\ queue = [i \in EntryIds |-> NoRow]
    /\ appts \in SeedStores
    /\ ledger = <<>>
    /\ now = 1565
    /\ pgrst \in {"rejected", "ignored"}
    /\ proc = [p \in Procs |-> Idle]
    /\ resp = NoResponse

NextJoin == \E p \in Procs : JoinerStep(p)

SpecJoin == InitJoin /\ [][NextJoin]_vars

(* C4: one-active-entry-per-user invariant -- each user id owns at most one entry that
   is Waiting, Up Next or In Progress, across all barbers, in every reachable state. *)
OneActivePerUser == \A u \in Users : Cardinality(ActiveOf(queue, u)) <= 1

----------------------------------------------------------------------------
(* The customers' side, one request at a time: signed-in joins, leaving the queue, *)
(* and the converter turning a due appointment into a queue entry                  *)

InitShop ==
    /\ queue = [i \in EntryIds |-> NoRow]
    /\ appts \in SeedStores
    /\ ledger = <<>>
    /\ now = StartTime
    /\ pgrst \in {"rejected", "ignored"}
    /\ proc = [p \in Procs |-> Idle]
    /\ resp = NoResponse

NextShop ==
    \/ \E b \in Barbers, u \in UserOpt, vip \in BOOLEAN, h \in HeadCounts : JoinSeq(b, u, 1, vip, h, TRUE)
    \/ \E id \in EntryIds, u \in UserOpt : DeleteSeq(id, u, TRUE)
    \/ \E b \in Barbers, id \in EntryIds : CancelSeq(b, id, TRUE)
    \/ ConverterSeq
    \/ AdvanceClock(ClockPoints)

SpecShop == InitShop /\ [][NextShop]_vars

\* C5: a join request whose user id already owns a Waiting, Up Next or In Progress entry
\* is answered 409, and the queue table is left exactly as it was (no insert, no status change)
JoinConflict ==
    [][\A b \in Barbers, u \in Users, vip \in BOOLEAN, h \in HeadCounts :
          (ActiveOf(queue, u) # {} /\ JoinSeq(b, u, 1, vip, h, TRUE))
              => (resp'.code = 409 /\ queue' = queue)]_vars

----------------------------------------------------------------------------
(* The engine's contract, on the barbers' side specification *)

WaitingOf(b) == WithStatus(queue, b, "Waiting")
ActiveAt(b) == WaitingOf(b) \cup UpNextOf(b) \cup InProgressOf(b)

\* R is the barber's Up Next entry and is non-VIP, V is the top Waiting candidate and is VIP
BumpCase(b, R, V) ==
    /\ UpNextOf(b) = {R}
    /\ ~queue[R].vip
    /\ V = Top(queue, WaitingOf(b))
    /\ V # 0
    /\ queue[V].vip

\* C6: when barber b's Up Next entry R is non-VIP and the top Waiting candidate V is VIP, a run
\* of enforceQueueLogic(b) leaves V Up Next and R Waiting with its creation time unchanged,
\* ordered ahead of every non-VIP Waiting entry of b created after R
VipBump ==
    [][\A b \in Barbers, R \in SeqIds, V \in SeqIds :
          (BumpCase(b, R, V) /\ EnforceSeq(b))
              => /\ queue'[V].status = "Up Next"
                 /\ queue'[R].status = "Waiting"
                 /\ queue'[R].created = queue[R].created
                 /\ \A w \in WaitingOf(b) :
                        (~queue[w].vip /\ queue[w].created > queue[R].created) => Before(queue', R, w)]_vars

\* C7: in a state reached by a run of enforceQueueLogic(b), a second run for the same barber
\* returns an empty promoted list and changes no entry
EnforceIdempotent ==
    (resp.op = "enforce") =>
        LET e == enforceQueueLogic(queue, resp.id, pgrst)
        IN  e.ret = <<>> /\ e.q = queue

\* C8: a non-VIP join onto a barber's empty queue ends with the new entry Up Next and the
\* response reporting Up Next; a non-VIP join behind a lone non-VIP Up Next entry A ends with
\* the new entry Waiting and A still Up Next
PromotionOnJoin ==
    [][\A b \in Barbers :
          JoinSeq(b, NoUser, 1, FALSE, 1, TRUE) =>
              LET id == NextId(queue)
              IN  /\ ActiveAt(b) = {}
                     => (queue'[id].status = "Up Next" /\ resp'.status = "Up Next")
                  /\ \A A \in SeqIds :
                       (ActiveAt(b) = {A} /\ queue[A].status = "Up Next" /\ ~queue[A].vip)
                           => (queue'[id].status = "Waiting" /\ queue'[A].status = "Up Next")]_vars

----------------------------------------------------------------------------
(* Appointments, one request at a time: slots, book, reject, and the clock *)

\* scheduled_time values of the book requests: 11:00 of shop day 1, 07:00 and 10:30 of shop day 2
ApptStarts == {1620, 2820, 3030}
ApptDates == {1, 2}
\* 11:05 of shop day 1
ApptClock == {1625}

InitAppt ==
    /\ queue = [i \in EntryIds |-> NoRow]
    /\ appts = [k \in ApptIds |-> NoAppt]
    /\ ledger = <<>>
    /\ now = StartTime
    /\ pgrst = "rejected"
    /\ proc = [p \in Procs |-> Idle]
    /\ resp = NoResponse

ApptStep ==
    \/ \E s \in Services, st \in ApptStarts : BookSeq(1, "u1", s, st)
    \/ BookSeq(2, "u2", 1, 1620)
    \/ \E k \in ApptIds : RejectSeq(k)
    \/ \E b \in Barbers, d \in ApptDates, s \in Services : SlotsSeq(b, d, s, HostOffset)
    \/ AdvanceClock(ApptClock)

SpecAppt == InitAppt /\ [][ApptStep]_vars

\* start times of the 30-minute grid of shop day d: opening, opening + 30, ... before closing
Grid(d) == {OpenTime(d) + SlotStep * k : k \in 0..((CloseMinute - OpenMinute) \div SlotStep)}
              \cap OpenTime(d)..(CloseTime(d) - 1)

\* [g, g + dur) meets no confirmed appointment of barber b: existingStart < g + dur and existingEnd > g
FreeOf(b, g, dur) ==
    ~\E k \in Confirmed(appts) :
        appts[k].barber = b /\ appts[k].start < g + dur /\ appts[k].end > g

\* C9: the slots response holds exactly the grid start times g of the requested day with
\* g + duration <= closing, g >= now, and [g, g + duration) overlapping no confirmed
\* appointment of the barber under the half-open test
SlotsExact ==
    [][\A b \in Barbers, d \in ApptDates, s \in Services :
          (resp'.id = b /\ resp'.ret = <<d, s>> /\ SlotsSeq(b, d, s, HostOffset)) =>
              {resp'.slots[k] : k \in 1..Len(resp'.slots)}
                  = {g \in Grid(d) : /\ g + Duration(s) <= CloseTime(d)
                                     /\ g >= now
                                     /\ FreeOf(b, g, Duration(s))}]_vars

\* a slots response for a barber with a confirmed appointment: the slot ending at the
\* appointment's start, the slot starting at its end and the slot ending at closing are offered,
\* the slot at the appointment's start is not
SlotsExactWitness ==
    /\ resp.op = "slots"
    /\ \E k \in Confirmed(appts) :
          /\ appts[k].barber = resp.id
          /\ InSeq(appts[k].start - Duration(resp.ret[2]), resp.slots)
          /\ InSeq(appts[k].end, resp.slots)
          /\ ~InSeq(appts[k].start, resp.slots)
          /\ InSeq(CloseTime(resp.ret[1]) - Duration(resp.ret[2]), resp.slots)

\* C10: a book request whose start falls, in the shop's UTC+8 date, on today's shop date or
\* an earlier one is answered 400 and inserts no appointment
LeadTimeRule ==
    [][\A b \in Barbers, u \in Users, s \in Services, st \in ApptStarts :
          (DateOf(st + PhOffset) <= DateOf(now + PhOffset) /\ resp'.op = "book" /\ BookSeq(b, u, s, st))
              => (resp'.code = 400 /\ appts' = appts)]_vars

\* a rejected request for a start on today's shop date
LeadTimeRuleWitness ==
    /\ resp.op = "book"
    /\ resp.code = 400
    /\ DateOf(resp.ret[1]) = DateOf(resp.ret[1] + PhOffset)
    /\ DateOf(resp.ret[1] + PhOffset) = DateOf(now + PhOffset)

----------------------------------------------------------------------------
(* Booking, one request at a time, on a store with room for three appointments *)

\* scheduled_time values: 11:00 and 11:30 of shop day 1
NearStarts == {1620, 1650}

InitBooked ==
    /\ queue = [i \in EntryIds |-> NoRow]
    /\ appts = [k \in 1..MaxBookings |-> NoAppt]
    /\ ledger = <<>>
    /\ now = StartTime
    /\ pgrst = "rejected"
    /\ proc = [p \in Procs |-> Idle]
    /\ resp = NoResponse

BookedStep ==
    \/ \E b \in Barbers, s \in Services, st \in NearStarts : BookSeq(b, "u1", s, st)
    \/ \E k \in 1..MaxBookings : RejectSeq(k)
    \/ AdvanceClock(ApptClock)

SpecBooked == InitBooked /\ [][BookedStep]_vars

\* C11: a book request that passes the date check and whose interval overlaps a confirmed
\* appointment of the same barber is answered 409 and leaves the appointments unchanged; one
\* that overlaps none is answered 201 and adds exactly one appointment, confirmed, not
\* converted, with end = start + service duration
BookContract ==
    [][\A b \in Barbers, s \in Services, st \in NearStarts :
          (resp'.op = "book" /\ ~LeadReject(st, now) /\ BookSeq(b, "u1", s, st)) =>
              IF FreeOf(b, st, Duration(s))
              THEN /\ resp'.code = 201
                   /\ \E k \in DOMAIN appts :
                         /\ appts[k].status = "absent"
                         /\ appts' = [appts EXCEPT ![k] =
                                         [barber |-> b, user |-> "u1", service |-> s, start |-> st,
                                          end |-> st + Duration(s), status |-> "confirmed",
                                          converted |-> FALSE]]
              ELSE resp'.code = 409 /\ appts' = appts]_vars

----------------------------------------------------------------------------
(* The barber's chair, one request at a time: walk-in joins, call-next, complete, cancel *)

InitChair ==
    /\ queue = [i \in EntryIds |-> NoRow]
    /\ appts = [k \in ApptIds |-> NoAppt]
    /\ ledger = <<>>
    /\ now = StartTime
    /\ pgrst \in {"rejected", "ignored"}
    /\ proc = [p \in Procs |-> Idle]
    /\ resp = NoResponse

ChairStep ==
    \/ \E b \in Barbers, vip \in BOOLEAN : JoinSeq(b, NoUser, 1, vip, 1, TRUE)
    \/ \E b \in Barbers, id \in EntryIds : CallNextSeq(b, id, TRUE, TRUE)
    \/ \E b \in Barbers, id \in EntryIds, ok \in BOOLEAN : CompleteSeq(b, id, 0, 0, ok, TRUE)
    \/ \E b \in Barbers, id \in EntryIds : CancelSeq(b, id, TRUE)

SpecChair == InitChair /\ [][ChairStep]_vars

\* the target is Waiting or Up Next for barber b
Callable(b, id) == Exists(queue, id) /\ queue[id].barber = b /\ queue[id].status \in {"Waiting", "Up Next"}

\* C12: a call-next request for barber b fails (409) and leaves every entry unchanged when an
\* entry of b is already In Progress, or when the target is not Waiting or Up Next for b
CallNextRefused ==
    [][\A b \in Barbers, id \in EntryIds :
          (resp'.op = "next" /\ CallNextSeq(b, id, TRUE, TRUE) /\ (InProgressOf(b) # {} \/ ~Callable(b, id)))
              => (resp'.code = 409 /\ queue' = queue)]_vars

\* a refused call while the barber's chair is taken and the target is Waiting or Up Next,
\* and a refused call for a target of the other barber
CallNextRefusedWitness ==
    /\ resp.op = "next"
    /\ resp.code = 409
    /\ Exists(queue, resp.id)
    /\ queue[resp.id].status \in {"Waiting", "Up Next"}
    /\ InProgressOf(queue[resp.id].barber) # {}

\* C13: a successful call-next leaves the target In Progress, and when barber b has a Waiting
\* entry at the time the engine runs, b ends with exactly one Up Next entry; if the slot was
\* empty at that time it is the top Waiting candidate (VIP first, then oldest)
CallNextBackfill ==
    [][\A b \in Barbers, id \in EntryIds :
          (resp'.op = "next" /\ resp'.code = 200 /\ CallNextSeq(b, id, TRUE, TRUE)) =>
              LET q1 == CallNextRpc(queue, b, id)
                  W == WithStatus(q1, b, "Waiting")
                  U == WithStatus(q1, b, "Up Next")
              IN  /\ queue'[id].status = "In Progress"
                  /\ W # {} => \E x \in EntryIds :
                                  /\ WithStatus(queue', b, "Up Next") = {x}
                                  /\ U = {} => x = Top(q1, W)]_vars

\* C14: a complete request whose target is not In Progress (any other status, or no such
\* entry) is answered with an error, makes no entry Done and writes no ledger row
CompleteRequiresChair ==
    [][\A b \in Barbers, id \in EntryIds, ok \in BOOLEAN :
          (resp'.op = "complete" /\ CompleteSeq(b, id, 0, 0, ok, TRUE)
              /\ ~(Exists(queue, id) /\ queue[id].status = "In Progress"))
              => /\ resp'.code >= 400
                 /\ \A i \in EntryIds : queue'[i].status = "Done" => queue[i].status = "Done"
                 /\ ledger' = ledger]_vars

\* C16: a complete request that moves its target from In Progress to Done runs the engine
\* for that barber before it returns: afterwards the barber has an Up Next entry whenever
\* the barber has a Waiting entry
CompleteBackfill ==
    [][\A b \in Barbers, id \in EntryIds, ok \in BOOLEAN :
          (resp'.op = "complete" /\ CompleteSeq(b, id, 0, 0, ok, TRUE)
              /\ queue[id].status = "In Progress" /\ queue'[id].status = "Done")
              => (WithStatus(queue', queue[id].barber, "Waiting") # {}
                     => WithStatus(queue', queue[id].barber, "Up Next") # {})]_vars

----------------------------------------------------------------------------
(* The till: one barber, groups and services of different price, tips and surcharges *)

\* (service, head_count) of the joins and (tip_amount, vip_charge) of the complete requests
Parties == {<<1, 1>>, <<2, 2>>}
Charges == {<<0, 0>>, <<20, 50>>, <<-1, 0>>, <<0, -1>>}

TillStep ==
    \/ \E sh \in Parties : JoinSeq(1, NoUser, sh[1], FALSE, sh[2], TRUE)
    \/ \E id \in EntryIds : CallNextSeq(1, id, TRUE, TRUE)
    \/ \E id \in EntryIds, c \in Charges, ok \in BOOLEAN : CompleteSeq(1, id, c[1], c[2], ok, TRUE)

SpecTill == InitChair /\ [][TillStep]_vars

\* C15: a complete request with a negative tip or surcharge is answered 400 and changes
\* neither the queue nor the ledger; a successful one appends one ledger row whose price is
\* unit service price x head count (1 when absent) + tip + surcharge
TotalCharge ==
    [][\A id \in EntryIds, c \in Charges, ok \in BOOLEAN :
          (resp'.op = "complete" /\ resp'.ret = <<c[1], c[2]>> /\ CompleteSeq(1, id, c[1], c[2], ok, TRUE)) =>
              /\ (c[1] < 0 \/ c[2] < 0) => (resp'.code = 400 /\ queue' = queue /\ ledger' = ledger)
              /\ resp'.code = 200 =>
                    /\ c[1] >= 0 /\ c[2] >= 0
                    /\ Len(ledger') = Len(ledger) + 1
                    /\ SubSeq(ledger', 1, Len(ledger)) = ledger
                    /\ ledger'[Len(ledger')].price =
                          Price(queue[id].service) * (IF queue[id].heads = 0 THEN 1 ELSE queue[id].heads)
                              + c[1] + c[2]]_vars

\* a recorded charge for a finished cut of a group of two, with a tip and a surcharge
TotalChargeWitness ==
    /\ resp.op = "complete"
    /\ resp.code = 200
    /\ resp.status = "Done"
    /\ resp.ret = <<20, 50>>
    /\ Len(ledger) > 0
    /\ ledger[Len(ledger)].heads = 2
    /\ ledger[Len(ledger)].price = 2 * Price(2) + 70

----------------------------------------------------------------------------
(* Leaving the queue, one request at a time: joins, call-next, cancel and delete at barber 1 *)

\* a queue left by earlier requests: regular R (u1) Up Next, VIP walk-in V and regular Z (u2)
\* Waiting -- X joins, R joins, X leaves (R is filled in), V and Z join with the candidate
\* query refused
LeaveSeed ==
    [i \in SeqIds |->
        IF i = 1 THEN [NewRow(1, 1, "u1", 1, FALSE) EXCEPT !.status = "Up Next"]
        ELSE IF i = 2 THEN NewRow(2, 1, NoUser, 1, TRUE)
        ELSE IF i = 3 THEN NewRow(3, 1, "u2", 1, FALSE)
        ELSE NoRow]

\* (user_id, is_vip) of the join requests
Customers == {<<"u1", FALSE>>, <<NoUser, TRUE>>, <<"u2", FALSE>>}

InitLeave ==
    /\ \/ queue = [i \in SeqIds |-> NoRow] /\ pgrst \in {"rejected", "ignored"}
       \/ queue = LeaveSeed /\ pgrst = "rejected"
    /\ appts = [k \in ApptIds |-> NoAppt]
    /\ ledger = <<>>
    /\ now = StartTime
    /\ proc = [p \in Procs |-> Idle]
    /\ resp = NoResponse

LeaveStep ==
    \/ \E c \in Customers : JoinSeq(1, c[1], 1, c[2], 1, TRUE)
    \/ \E id \in SeqIds : CallNextSeq(1, id, TRUE, TRUE)
    \/ \E b \in Barbers, id \in SeqIds : CancelSeq(b, id, TRUE)
    \/ \E id \in SeqIds, u \in UserOpt : DeleteSeq(id, u, TRUE)

SpecLeave == InitLeave /\ [][LeaveStep]_vars

\* C17: a delete request removes the entry only when it is Waiting or Up Next and the
\* requester is its owner; a non-owner is answered with an authorization error (401 without
\* a user id, 403 otherwise), a target that is In Progress, Done, Cancelled or missing is
\* answered 404, and in both cases the queue is unchanged
DeleteIfOwner ==
    [][\A id \in SeqIds, u \in UserOpt :
          (resp'.op = "delete" /\ resp'.id = id /\ DeleteSeq(id, u, TRUE)) =>
              LET open == Exists(queue, id) /\ queue[id].status \in {"Waiting", "Up Next"}
                  owner == u # NoUser /\ Exists(queue, id) /\ queue[id].user = u
              IN  /\ (open /\ owner) => (resp'.code = 200 /\ ~Exists(queue', id))
                  /\ ~(open /\ owner) => queue' = queue
                  /\ (u # NoUser /\ ~open) => resp'.code = 404
                  /\ (open /\ ~owner) => resp'.code \in {401, 403}]_vars

\* the owner has left, a stranger was refused, or a request for an entry in the chair was
\* answered not-found
DeleteIfOwnerWitness ==
    /\ resp.op = "delete"
    /\ \/ resp.code = 200 /\ queue[resp.id].status = "Deleted"
       \/ resp.code = 403 /\ queue[resp.id].status \in {"Waiting", "Up Next"}
       \/ resp.code = 404 /\ queue[resp.id].status = "In Progress"

----------------------------------------------------------------------------
(* The appointment converter, one tick at a time, with bookings, rejections and walk-ins *)

\* scheduled_time values: 10:30 and 11:00 of shop day 1; ticks at 10:05, 10:40 and 11:05
DueStarts == {1590, 1620}
TickTimes == {1565, 1600, 1625}

ConvStep ==
    \/ \E b \in Barbers, u \in Users, st \in DueStarts : BookSeq(b, u, 1, st)
    \/ \E k \in ApptIds : RejectSeq(k)
    \/ JoinSeq(1, NoUser, 1, FALSE, 1, TRUE)
    \/ AdvanceClock(TickTimes)
    \/ ConverterSeq

SpecConv == InitAppt /\ [][ConvStep]_vars

\* confirmed, unconverted, and starting within the next 30 minutes
DueNow == {k \in ApptIds : /\ appts[k].status = "confirmed"
                           /\ ~appts[k].converted
                           /\ now <= appts[k].start
                           /\ appts[k].start <= now + 30}

\* C19: a converter tick flags exactly the due appointments as converted and leaves every other
\* appointment unchanged; it adds exactly one queue entry per due appointment, VIP, with the
\* appointment's barber, service and customer, inserted as Waiting (and Waiting or promoted to
\* Up Next when the tick ends); every earlier entry keeps its barber, customer and service
ConverterExact ==
    [][(resp'.op = "convert" /\ ConverterSeq) =>
          LET new == {i \in EntryIds : ~Exists(queue, i) /\ Exists(queue', i)}
          IN  /\ appts' = [k \in ApptIds |-> IF k \in DueNow THEN [appts[k] EXCEPT !.converted = TRUE]
                                             ELSE appts[k]]
              /\ \E f \in [DueNow -> new] :
                    /\ \A i \in new : \E k \in DueNow : f[k] = i
                    /\ \A k, l \in DueNow : f[k] = f[l] => k = l
                    /\ \A k \in DueNow :
                          /\ queue'[f[k]].barber = appts[k].barber
                          /\ queue'[f[k]].user = appts[k].user
                          /\ queue'[f[k]].service = appts[k].service
                          /\ queue'[f[k]].vip
                          /\ queue'[f[k]].status \in {"Waiting", "Up Next"}
                          /\ ConvertInsert(queue, appts[k])[NextId(queue)].status = "Waiting"
              /\ \A i \in Rows(queue) :
                    /\ Exists(queue', i)
                    /\ queue'[i].barber = queue[i].barber
                    /\ queue'[i].user = queue[i].user
                    /\ queue'[i].service = queue[i].service]_vars

\* after a tick: one appointment converted with its entry in the queue, another one,
\* cancelled or not yet due, left unconverted
ConverterExactWitness ==
    /\ resp.op = "convert"
    /\ \E k, l \in ApptIds :
          /\ appts[k].status = "confirmed" /\ appts[k].converted
          /\ \E i \in Rows(queue) : queue[i].vip /\ queue[i].user = appts[k].user
                                     /\ queue[i].barber = appts[k].barber
          /\ appts[l].status \in {"confirmed", "cancelled"} /\ ~appts[l].converted

----------------------------------------------------------------------------
(* Converter runs whose store calls interleave, and whose flag write may fail *)

\* .update({ is_converted_to_queue: true }) returns an error; the result is not inspected
ConvFlagFail(p) ==
    /\ At(p, "conv_flag")
    /\ Goto(p, [proc[p] EXCEPT !.pc = "conv_fill"])
    /\ UNCHANGED <<queue, appts, ledger, now, pgrst, resp>>

TickStep(p) ==
    \/ ConvStart(p)
    \/ ConvInsert(p)
    \/ ConvFlag(p)
    \/ ConvFlagFail(p)
    \/ ConvFill(p)

\* the next tick, five minutes after 10:05, and the one after the appointment's start
LaterTicks == {1570, 1595}

InitTick ==
    /\ queue = [i \in EntryIds |-> NoRow]
    /\ appts = [k \in ApptIds |-> IF k = 1 THEN SeedAppt ELSE NoAppt]
    /\ ledger = <<>>
    /\ now = 1565
    /\ pgrst \in {"rejected", "ignored"}
    /\ proc = [p \in Procs |-> Idle]
    /\ resp = NoResponse

NextTick ==
    \/ \E p \in Procs : TickStep(p)
    \/ \E k \in ApptIds : RejectSeq(k)
    \/ AdvanceClock(LaterTicks)

SpecTick == InitTick /\ [][NextTick]_vars

\* queue entries made from appointment k
EntriesOf(k) == {i \in Rows(queue) : /\ queue[i].vip
                                     /\ queue[i].user = appts[k].user
                                     /\ queue[i].barber = appts[k].barber
                                     /\ queue[i].service = appts[k].service}

\* C20: every appointment has at most one queue entry made from it, in every state, and its
\* converted flag never goes from true back to false
ConvertOnce ==
    /\ [](\A k \in ApptIds : Cardinality(EntriesOf(k)) <= 1)
    /\ [][\A k \in ApptIds : appts[k].converted => appts'[k].converted]_vars

----------------------------------------------------------------------------
(* A due appointment of barber 1 meeting walk-ins already in the queue *)

InitFill ==
    /\ queue = [i \in EntryIds |-> NoRow]
    /\ appts = [k \in ApptIds |-> IF k = 1 THEN SeedAppt ELSE NoAppt]
    /\ ledger = <<>>
    /\ now = StartTime
    /\ pgrst \in {"rejected", "ignored"}
    /\ proc = [p \in Procs |-> Idle]
    /\ resp = NoResponse

FillStep ==
    \/ \E b \in Barbers, vip \in BOOLEAN : JoinSeq(b, NoUser, 1, vip, 1, TRUE)
    \/ \E b \in Barbers, id \in EntryIds : CancelSeq(b, id, TRUE)
    \/ AdvanceClock({1565})
    \/ ConverterSeq

SpecFill == InitFill /\ [][FillStep]_vars

----------------------------------------------------------------------------
(* Up Next notifications: the one-minute sweep and the handlers' own posts *)

\* .eq('status', 'Up Next').eq('notified_up_next', false)
Pending(q) == {i \in Rows(q) : q[i].status = "Up Next" /\ ~q[i].notified}

\* for (const entry of pendingNotifications) await processUpNextNotification(entry)
RECURSIVE SweepLoop(_, _, _, _)
SweepLoop(q, todo, oks, r) ==
    IF todo = {} THEN [q |-> q, r |-> r]
    ELSE LET i == MinOf(todo)
             ok == i \in oks
         IN  SweepLoop(processUpNextNotification(q, i, ok), todo \ {i}, oks,
                       [r EXCEPT !.ret = Append(@, i), !.mail = Append(@, i),
                                 !.sent = IF ok THEN Append(@, i) ELSE @])

\* cron '* * * * *': oks are the entries whose webhook post gets through on this tick
SweepSeq(oks) ==
    LET w == SweepLoop(queue, Pending(queue), oks, Response("sweep", 0, 0, "", <<>>))
    IN  /\ queue' = w.q
        /\ resp' = w.r
        /\ UNCHANGED <<appts, ledger, now, pgrst, proc>>

InitMail ==
    /\ queue = [i \in EntryIds |-> NoRow]
    /\ appts = [k \in ApptIds |-> NoAppt]
    /\ ledger = <<>>
    /\ now = StartTime
    /\ pgrst \in {"rejected", "ignored"}
    /\ proc = [p \in Procs |-> Idle]
    /\ resp = NoResponse

MailStep ==
    \/ \E vip, d \in BOOLEAN : JoinSeq(1, NoUser, 1, vip, 1, d)
    \/ \E id \in EntryIds, d, e \in BOOLEAN : CallNextSeq(1, id, d, e)
    \/ \E id \in EntryIds, d \in BOOLEAN : CompleteSeq(1, id, 0, 0, TRUE, d)
    \/ \E id \in EntryIds, d \in BOOLEAN : CancelSeq(1, id, d)
    \/ \E oks \in SUBSET EntryIds : SweepSeq(oks)

SpecMail == InitMail /\ [][MailStep]_vars


Range(sq) == {sq[k] : k \in 1..Len(sq)}

SpecMailFair == SpecMail /\ SF_vars(SweepSeq(EntryIds))

IsUpNext(i) == Exists(queue, i) /\ queue[i].status = "Up Next"
\* entry i was promoted by the join that has just been answered and its post failed
JoinPostFailed(i) == resp.op = "join" /\ resp.id = i /\ resp.status = "Up Next" /\ resp.sent = <<>>

\* C22: an entry that is Up Next and has not been notified (its flag is false, or the post
\* made when it was promoted failed) is eventually posted to successfully, unless it
\* leaves Up Next first
EventualDelivery ==
    \A i \in EntryIds :
        (IsUpNext(i) /\ (~queue[i].notified \/ JoinPostFailed(i)))
            ~> (~IsUpNext(i) \/ i \in Range(resp.sent))

\* C24: notified turns true for an Up Next entry only in a step in which a post to that
\* entry got through
NotifiedMeansSent ==
    [][\A i \in EntryIds :
          (Exists(queue', i) /\ queue'[i].status = "Up Next" /\ queue'[i].notified
              /\ ~(Exists(queue, i) /\ queue[i].notified))
            => i \in Range(resp'.sent)]_vars


HandlerOps == {"join", "next", "complete", "cancel", "delete"}

\* C25: a handler posts only to an entry it has just promoted: an entry that was already
\* Up Next before the operation is not posted to again by that operation
NoRepeatPost ==
    [][resp'.op \in HandlerOps =>
          \A i \in Range(resp'.mail) : ~(Exists(queue, i) /\ queue[i].status = "Up Next")]_vars


(* The five handlers that notify, for walk-ins and for one signed-in customer *)
MailUsers == {NoUser, "u1"}

IsoStep ==
    \/ \E u \in MailUsers, vip \in BOOLEAN : JoinSeq(1, u, 1, vip, 1, TRUE)
    \/ \E id \in EntryIds, d \in BOOLEAN : CallNextSeq(1, id, d, d)
    \/ \E id \in EntryIds : CompleteSeq(1, id, 0, 0, TRUE, TRUE)
    \/ \E id \in EntryIds : CancelSeq(1, id, TRUE)
    \/ \E id \in EntryIds : DeleteSeq(id, "u1", TRUE)

SpecIso == InitMail /\ [][IsoStep]_vars

Statuses(q) == [i \in DOMAIN q |-> q[i].status]
\* what the claim compares: the statuses left in the queue and the answer's code
Outcome(r) == <<Statuses(r.q), r.resp.code>>

\* C26: for join, callNext, completeCut, cancel and delete, the statuses left in the queue
\* and the success or error answer are the same whether the posts succeed or fail
PostIsolation ==
    /\ \A u \in MailUsers, vip \in BOOLEAN :
          Outcome(JoinResult(queue, pgrst, 1, u, 1, vip, 1, TRUE))
              = Outcome(JoinResult(queue, pgrst, 1, u, 1, vip, 1, FALSE))
    /\ \A id \in EntryIds, d, e \in BOOLEAN :
          Outcome(CallNextResult(queue, pgrst, 1, id, d, e))
              = Outcome(CallNextResult(queue, pgrst, 1, id, TRUE, TRUE))
    /\ \A id \in EntryIds :
          Outcome(CompleteResult(queue, pgrst, 1, id, 0, 0, TRUE, TRUE))
              = Outcome(CompleteResult(queue, pgrst, 1, id, 0, 0, TRUE, FALSE))
    /\ \A id \in EntryIds :
          Outcome(CancelResult(queue, 1, id, TRUE)) = Outcome(CancelResult(queue, 1, id, FALSE))
    /\ \A id \in EntryIds :
          Outcome(DeleteResult(queue, id, "u1", TRUE)) = Outcome(DeleteResult(queue, id, "u1", FALSE))
PostIsolationWitness ==
    /\ resp.op = "next" /\ resp.code = 200
    /\ resp.mail # <<>> /\ resp.sent = <<>>
    /\ \E i \in Rows(queue) : resp.mail[1] = i /\ queue[i].status = "Up Next" /\ ~queue[i].notified


----------------------------------------------------------------------------
(* Entry lifecycle *)

Lifecycle ==
    {<<"Waiting", "Up Next">>, <<"Up Next", "Waiting">>,
     <<"Waiting", "In Progress">>, <<"Up Next", "In Progress">>,
     <<"In Progress", "Done">>,
     <<"Waiting", "Cancelled">>, <<"Up Next", "Cancelled">>,
     <<"Waiting", "Deleted">>, <<"Up Next", "Deleted">>}

\* C27: the status of an entry changes only along the lifecycle: Waiting <-> Up Next,
\* Waiting / Up Next -> In Progress, In Progress -> Done, Waiting / Up Next -> Cancelled
\* or removed; Done and Cancelled are final and In Progress never goes back
LifecycleOnly ==
    [][\A i \in DOMAIN queue :
          Exists(queue, i) =>
              \/ queue'[i].status = queue[i].status
              \/ <<queue[i].status, queue'[i].status>> \in Lifecycle]_vars


----------------------------------------------------------------------------
(* Rejected appointments: bookings, rejections, slot lists and converter ticks of barber 1 *)

CancelStep ==
    \/ \E u \in Users, st \in DueStarts : BookSeq(1, u, 1, st)
    \/ \E k \in ApptIds : RejectSeq(k)
    \/ SlotsSeq(1, 1, 1, HostOffset)
    \/ AdvanceClock(TickTimes)
    \/ ConverterSeq

SpecCancel == InitAppt /\ [][CancelStep]_vars

Cancelled(a) == {k \in DOMAIN a : a[k].status = "cancelled"}
\* the table as it would be had the cancelled appointments never been booked
WithoutCancelled(a) == [k \in DOMAIN a |-> IF k \in Cancelled(a) THEN NoAppt ELSE a[k]]

\* C28: a cancelled appointment stays cancelled, a converter tick neither flags it nor adds
\* a queue entry for it, and its interval blocks neither the slot list nor a booking: both
\* answer as if the appointment had never been booked
CancelTerminal ==
    /\ [][/\ \A k \in Cancelled(appts) : appts'[k] = appts[k]
          /\ (resp'.op = "convert" /\ ConverterSeq) =>
                Cardinality(Rows(queue')) = Cardinality(Rows(queue)) + Cardinality(DueNow)]_vars
    /\ [](/\ computeSlots(appts, now, 1, 1, 1, HostOffset)
                = computeSlots(WithoutCancelled(appts), now, 1, 1, 1, HostOffset)
          /\ \A st \in DueStarts :
                ConflictRead(appts, 1, st, st + DurationOf(1))
                    = ConflictRead(WithoutCancelled(appts), 1, st, st + DurationOf(1)))
\* a booking accepted over the interval of a cancelled appointment
CancelTerminalWitness ==
    /\ resp.op = "book" /\ resp.code = 201
    /\ \E k \in Cancelled(appts), l \in Confirmed(appts) :
          /\ appts[l].barber = appts[k].barber
          /\ resp.ret = <<appts[l].start, appts[l].end>>
          /\ appts[k].start < appts[l].end /\ appts[k].end > appts[l].start


----------------------------------------------------------------------------
(* The engine's promotions *)

\* C29: an entry that a run of enforceQueueLogic(b) moves to Up Next is the first of the
\* barber's Waiting entries, VIP first and then oldest first, as the queue stood at the run
PromotesTopWaiting ==
    [][\A b \in Barbers :
          (resp'.op = "enforce" /\ resp'.id = b /\ EnforceSeq(b)) =>
              \A i \in DOMAIN queue :
                  (queue'[i].status = "Up Next" /\ queue[i].status # "Up Next")
                      => i = Top(queue, WaitingOf(b))]_vars

\* the slot is held by a VIP, or held while the top Waiting candidate is regular or absent,
\* or no entry is Waiting
NoChangeCase(b) ==
    LET U == UpNextOf(b)
        w == Top(queue, WaitingOf(b))
    IN  \/ \E r \in U : U = {r} /\ queue[r].vip
        \/ \E r \in U : U = {r} /\ (w = 0 \/ ~queue[w].vip)
        \/ WaitingOf(b) = {}

\* C30: in the no-change case a run of enforceQueueLogic(b) leaves every entry's status as it was
NoChangeKept ==
    [][\A b \in Barbers :
          (resp'.op = "enforce" /\ resp'.id = b /\ EnforceSeq(b) /\ NoChangeCase(b)) =>
              \A i \in DOMAIN queue : queue'[i].status = queue[i].status]_vars


\* C31: the list returned by a run of enforceQueueLogic(b) holds exactly the entries the
\* run moved to Up Next: none of them was Up Next before the run, and the list is empty
\* when the run promoted nothing
ReturnsPromoted ==
    [][\A b \in Barbers :
          (resp'.op = "enforce" /\ resp'.id = b /\ EnforceSeq(b)) =>
              Range(resp'.ret) = {i \in DOMAIN queue : queue'[i].status = "Up Next"
                                                         /\ queue[i].status # "Up Next"}]_vars


----------------------------------------------------------------------------
(* Closing time: the 19:00 cleanup job *)

\* .update({ status: 'Cancelled' }).in('status', ['Waiting', 'Up Next'])
CleanupUpdate(q) ==
    [i \in DOMAIN q |-> IF Exists(q, i) /\ q[i].status \in {"Waiting", "Up Next"}
                        THEN [q[i] EXCEPT !.status = "Cancelled"] ELSE q[i]]

\* cron '0 19 * * *', timezone Asia/Manila
CleanupSeq ==
    /\ (now + PhOffset) % DayMinutes = CloseMinute
    /\ queue' = CleanupUpdate(queue)
    /\ resp' = Response("cleanup", 0, 0, "", <<>>)
    /\ UNCHANGED <<appts, ledger, now, pgrst, proc>>

\* 19:00 of shop day 1
ClosingTimes == {CloseTime(1)}

CloseStep ==
    \/ \E vip \in BOOLEAN : JoinSeq(1, NoUser, 1, vip, 1, TRUE)
    \/ \E id \in EntryIds : CallNextSeq(1, id, TRUE, TRUE)
    \/ \E id \in EntryIds : CancelSeq(1, id, TRUE)
    \/ \E oks \in SUBSET EntryIds : SweepSeq(oks)
    \/ AdvanceClock(ClosingTimes)
    \/ CleanupSeq

SpecClose == InitMail /\ [][CloseStep]_vars

TimerOps == {"convert", "sweep", "cleanup"}

\* C32: no timer task (converter, sweep, closing cleanup) takes an entry out of
\* Waiting / Up Next
TimersKeepWaiting ==
    [][resp'.op \in TimerOps =>
          \A i \in DOMAIN queue :
              (Exists(queue, i) /\ queue[i].status \in {"Waiting", "Up Next"})
                  => queue'[i].status \in {"Waiting", "Up Next"}]_vars


----------------------------------------------------------------------------
(* The queue at rest, between requests *)

\* C33: between operations no barber has a regular entry Up Next while one of the barber's
\* VIP entries is Waiting
VipFirstAtRest ==
    \A b \in Barbers :
        ~\E r \in UpNextOf(b), v \in WaitingOf(b) : ~queue[r].vip /\ queue[v].vip

\* C34: between operations a barber with a Waiting entry also has an Up Next entry
SlotFilledAtRest ==
    \A b \in Barbers : WaitingOf(b) # {} => UpNextOf(b) # {}


----------------------------------------------------------------------------
(* A customer leaving the queue while the barber calls the next customer *)

RaceStep(p) ==
    \/ \E u \in MailUsers, vip \in BOOLEAN : JoinStart(p, 1, u, vip)
    \/ JoinInsert(p)
    \/ EnfReadUpNext(p)
    \/ EnfReadTop(p)
    \/ EnfDemote(p)
    \/ EnfPromote(p)
    \/ JoinNotify(p)
    \/ \E id \in EntryIds : CallNextStart(p, 1, id)
    \/ NextNotify(p, TRUE)
    \/ \E id \in EntryIds : DeleteStart(p, id, "u1")
    \/ DeleteRemove(p)
    \/ DeleteFill(p)

NextRace == \E p \in Procs : RaceStep(p)

SpecRace == Init /\ [][NextRace]_vars

\* C35: an entry that is In Progress is never removed from the store
InProgressKept ==
    [][\A i \in DOMAIN queue :
          (Exists(queue, i) /\ queue[i].status = "In Progress") => Exists(queue', i)]_vars


\* C36: a completeCut naming a barber other than the entry's barber changes no entry's
\* status and writes no ledger row
CompleteOwnBarber ==
    [][\A b \in Barbers, id \in EntryIds, ok \in BOOLEAN :
          (resp'.op = "complete" /\ resp'.id = id /\ CompleteSeq(b, id, 0, 0, ok, TRUE)
              /\ Exists(queue, id) /\ queue[id].barber # b)
            => /\ \A i \in DOMAIN queue : queue'[i].status = queue[i].status
               /\ ledger' = ledger]_vars


----------------------------------------------------------------------------
(* Booking against the calendar *)

\* C37: a book request whose start falls, in the shop's UTC+8 date, on a date after today's
\* shop date is not answered 400 by the lead-time check
LeadTimeAdmits ==
    [][\A b \in Barbers, u \in Users, s \in Services, st \in ApptStarts :
          (DateOf(st + PhOffset) > DateOf(now + PhOffset)
              /\ resp'.op = "book" /\ resp'.ret[1] = st /\ BookSeq(b, u, s, st))
            => resp'.code # 400]_vars


\* C38: for a date after today every start time in the slot list would be accepted by book
\* on the same store (no conflict), and every appointment book accepts starts on the
\* 30-minute grid of its shop day and ends no later than closing
SlotsAndBookAgree ==
    /\ [](\A d \in ApptDates, s \in Services :
             d > DateOf(now + PhOffset) =>
                 \A k \in 1..Len(computeSlots(appts, now, 1, d, s, HostOffset)) :
                     LET g == computeSlots(appts, now, 1, d, s, HostOffset)[k]
                     IN  ConflictRead(appts, 1, g, g + DurationOf(s)) = 0
                             /\ Conflicts(appts, 1, g, g + DurationOf(s)) = {})
    /\ [][\A b \in Barbers, u \in Users, s \in Services, st \in ApptStarts :
             (resp'.op = "book" /\ resp'.code = 201 /\ resp'.ret[1] = st /\ BookSeq(b, u, s, st))
                => /\ st \in Grid(DateOf(st + PhOffset))
                   /\ st + DurationOf(s) <= CloseTime(DateOf(st + PhOffset))]_vars


----------------------------------------------------------------------------
(* The converter on its schedule: a tick every five minutes *)

TickPeriod == 5

\* cron '*/5 * * * *': five minutes pass and the converter runs
TickSeq ==
    LET t == now + TickPeriod
        due == Due(appts, t)
        r == ConvertAll(queue, appts, due)
    IN  /\ t <= Horizon
        /\ Cardinality(FreeIds(queue)) >= Cardinality(due)
        /\ now' = t
        /\ queue' = r.q
        /\ appts' = r.a
        /\ resp' = Response("convert", 0, 0, "", <<>>)
        /\ UNCHANGED <<ledger, pgrst, proc>>

\* appointments booked on an earlier day: 10:30 at barber 1 and 10:32 at barber 2
LateAppt == [barber |-> 2, user |-> "u2", service |-> 1, start |-> 1592, end |-> 1622,
             status |-> "confirmed", converted |-> FALSE]
TickStores ==
    {[k \in ApptIds |-> IF k = 1 THEN x ELSE IF k = 2 THEN y ELSE NoAppt] :
        x \in {NoAppt, SeedAppt}, y \in {NoAppt, LateAppt}}

\* 09:40 of shop day 1, on a tick
InitLive ==
    /\ queue = [i \in EntryIds |-> NoRow]
    /\ appts \in TickStores
    /\ ledger = <<>>
    /\ now = 1540
    /\ pgrst \in {"rejected", "ignored"}
    /\ proc = [p \in Procs |-> Idle]
    /\ resp = NoResponse

LiveStep ==
    \/ TickSeq
    \/ \E k \in ApptIds : RejectSeq(k)
    \/ \E b \in Barbers, id \in EntryIds : CancelSeq(b, id, TRUE)

SpecLive == InitLive /\ [][LiveStep]_vars /\ WF_vars(TickSeq)

Unconverted(k) == appts[k].status = "confirmed" /\ ~appts[k].converted

\* C39: a confirmed appointment is converted by a tick no later than its start time: none
\* is past its start while confirmed and unconverted, the tick that flags it adds its queue
\* entry, and while the ticks keep firing a confirmed appointment does not stay unconverted
ConvertedInTime ==
    /\ [](\A k \in ApptIds : Unconverted(k) => now <= appts[k].start)
    /\ [][\A k \in ApptIds :
             (Unconverted(k) /\ appts'[k].converted)
                => /\ now' <= appts[k].start
                   /\ \E i \in EntryIds : ~Exists(queue, i) /\ Exists(queue', i)
                                           /\ queue'[i].user = appts[k].user
                                           /\ queue'[i].barber = appts[k].barber]_vars
    /\ \A k \in ApptIds : Unconverted(k) ~> ~Unconverted(k)
\* the 10:32 appointment, converted by the 10:05 tick, is in the queue after 10:32
ConvertedInTimeWitness ==
    /\ now > 1592
    /\ appts[2].status = "confirmed" /\ appts[2].converted /\ appts[2].start = 1592
    /\ \E i \in Rows(queue) : queue[i].user = "u2" /\ queue[i].barber = 2 /\ queue[i].vip

====
